---- MODULE Spec2Model ----
(* Message-send lifecycle of the Esita chat widget                          *)
(* (frontend/src/Chatbot.jsx).                                              *)
(*                                                                          *)
(* The source file holds two definitions of the Chatbot component:          *)
(*   variant 1, lines 113-288: plain fetch, no timeout, no health probe,    *)
(*              no r.ok test;                                               *)
(*   variant 2, lines 412-666: fetchWithTimeout, health probe on mount,     *)
(*              r.ok test, JSON parse guarded by its own try/catch.         *)
(* Both are modelled; `variant` says which one is mounted.                  *)
(*                                                                          *)
(* A text is a sequence of string pieces: typed input is one piece per      *)
(* character (so trim/toLowerCase/includes act on characters), a literal    *)
(* of the source is a single piece, and a template literal is the           *)
(* concatenation of its pieces.  Non-ASCII characters of the source are     *)
(* written by code point, e.g. "<U+274C>".                                  *)
(* An optional JS value (undefined or a string) is <<>> or <<text>>.        *)
EXTENDS Integers, Sequences, FiniteSets, TLC

VARIABLES
  variant,            \* 1 or 2: which Chatbot definition is mounted
  online,             \* useState(true)                    (114 / 413)
  input,              \* useState("")                      (115 / 414)
  sending,            \* useState(false)                   (116 / 415)
  messages,           \* useState([greeting])              (118 / 417)
  historyForServer,   \* useMemo value of the last render  (130 / 441)
  calls,              \* suspended send() invocations, each awaiting the network
  probe,              \* startup health probe: "absent", "pending", "settled"
  probeTimer,         \* TRUE while the probe's setTimeout is pending
  timers,             \* ids of the setTimeout handles neither fired nor cleared
  mounted,            \* FALSE once a render has thrown and React removed the tree
  accepted,           \* number of send() invocations that passed the guard
  issued              \* number of chat requests handed to fetch

vars == <<variant, online, input, sending, messages, historyForServer,
          calls, probe, probeTimer, timers, mounted, accepted, issued>>

-----------------------------------------------------------------------------
(* Bounds *)

MaxRounds == 2        \* accepted sends per behaviour
MaxSeedRounds == 6    \* canned rounds already in the conversation (SpecLong)

-----------------------------------------------------------------------------
(* Text helpers *)

Whitespace == {" ", "\t", "\n"}

UpperToLower ==
  [c \in {"W", "H", "N", "M", "Y"} |->
     CASE c = "W" -> "w" [] c = "H" -> "h" [] c = "N" -> "n"
       [] c = "M" -> "m" [] c = "Y" -> "y"]

ToLowerCase(s) ==
  [i \in 1..Len(s) |->
     IF s[i] \in DOMAIN UpperToLower THEN UpperToLower[s[i]] ELSE s[i]]

RECURSIVE TrimStart(_)
TrimStart(s) ==
  IF s # <<>> /\ Head(s) \in Whitespace THEN TrimStart(Tail(s)) ELSE s

RECURSIVE TrimEnd(_)
TrimEnd(s) ==
  IF s # <<>> /\ s[Len(s)] \in Whitespace
    THEN TrimEnd(SubSeq(s, 1, Len(s) - 1))
    ELSE s

Trim(s) == TrimEnd(TrimStart(s))

Includes(s, pat) ==
  \E i \in 0..(Len(s) - Len(pat)) : SubSeq(s, i + 1, i + Len(pat)) = pat

normalize(s) == Trim(ToLowerCase(s))

\* The substrings of isNameQuestion and isCreatorQuestion, one piece per character.
YourName == <<"y","o","u","r"," ","n","a","m","e">>
UrName == <<"u","r"," ","n","a","m","e">>
Name == <<"n","a","m","e">>
WhatIsYourName == <<"w","h","a","t"," ","i","s"," ","y","o","u","r"," ","n","a","m","e">>
WhoAreYou == <<"w","h","o"," ","a","r","e"," ","y","o","u">>
WhoCreatedYou == <<"w","h","o"," ","c","r","e","a","t","e","d"," ","y","o","u">>
WhoMadeYou == <<"w","h","o"," ","m","a","d","e"," ","y","o","u">>
YourCreator == <<"y","o","u","r"," ","c","r","e","a","t","o","r">>
WhoBuiltYou == <<"w","h","o"," ","b","u","i","l","t"," ","y","o","u">>

\* isNameQuestion without the lower-casing of normalize.
isNameQuestionCaseSensitive(msg) ==
  LET m == Trim(msg) IN
    \/ Includes(m, YourName)
    \/ Includes(m, UrName)
    \/ m = Name
    \/ Includes(m, WhatIsYourName)
    \/ Includes(m, WhoAreYou)

isNameQuestion(msg) ==
  LET m == normalize(msg) IN
    \/ Includes(m, YourName)
    \/ Includes(m, UrName)
    \/ m = Name
    \/ Includes(m, WhatIsYourName)
    \/ Includes(m, WhoAreYou)

\* isCreatorQuestion without the lower-casing of normalize.
isCreatorQuestionCaseSensitive(msg) ==
  LET m == Trim(msg) IN
    \/ Includes(m, WhoCreatedYou)
    \/ Includes(m, WhoMadeYou)
    \/ Includes(m, YourCreator)
    \/ Includes(m, WhoBuiltYou)

\* The creator test placed behind the name test: a text that matches both
\* is answered as a name question.
isCreatorQuestionAfterName(msg) ==
  LET m == normalize(msg) IN
    /\ ~isNameQuestion(msg)
    /\ \/ Includes(m, WhoCreatedYou)
       \/ Includes(m, WhoMadeYou)
       \/ Includes(m, YourCreator)
       \/ Includes(m, WhoBuiltYou)

isCreatorQuestion(msg) ==
  LET m == normalize(msg) IN
    \/ Includes(m, WhoCreatedYou)
    \/ Includes(m, WhoMadeYou)
    \/ Includes(m, YourCreator)
    \/ Includes(m, WhoBuiltYou)

-----------------------------------------------------------------------------
(* Literals of the component *)

Greeting == <<"Hi, I'm Esita. How can I help you today?">>
CreatorText == <<"Sweetyseleena created me. <U+1F451>">>
IdentityText == <<"I'm Esita <U+1F916>">>
ErrorMark == <<"<U+274C> ">>
NoReplyText == <<"No reply.">>
TimeoutText == <<"Request timed out (Render sleeping or slow). Try again.">>
ConnectionErrorText == <<"Connection error. Please try again.">>

Msg(role, text) == [role |-> role, text |-> text]

-----------------------------------------------------------------------------
(* Conversation store *)

HistoryWindow == 10

\* messages.slice(0, 10): the oldest entries instead of the newest.
SliceFromStart(msgs) ==
  IF Len(msgs) <= HistoryWindow THEN msgs ELSE SubSeq(msgs, 1, HistoryWindow)

\* messages.slice(-10)
Slice(msgs) ==
  IF Len(msgs) <= HistoryWindow
    THEN msgs
    ELSE SubSeq(msgs, Len(msgs) - HistoryWindow + 1, Len(msgs))

\* (m) => ({ role: m.role === "assistant" ? "assistant" : "user", text: m.text })
WireShape(m) ==
  [role |-> IF m.role = "assistant" THEN "assistant" ELSE "user", text |-> m.text]

\* The useMemo body: recomputed by every render whose `messages` changed.
HistoryOf(msgs) ==
  LET s == Slice(msgs) IN [i \in 1..Len(s) |-> WireShape(s[i])]

-----------------------------------------------------------------------------
(* What the remote endpoint can answer *)

Statuses == {200, 500}

\* r.ok
Ok(status) == status >= 200 /\ status <= 299

None == <<>>
Some(t) == <<t>>

\* Outcome of r.json(): a rejection (body is not JSON, or the body stream
\* failed), the JSON value null, or a JSON object with optional string
\* fields reply and error.
JsonThrow == [parsed |-> "throw", reply |-> None, error |-> None]
JsonNull == [parsed |-> "null", reply |-> None, error |-> None]
JsonObject(reply, error) == [parsed |-> "object", reply |-> reply, error |-> error]

HiThere == <<"Hi there!">>
DbDown == <<"db down">>

Bodies ==
  {JsonThrow, JsonNull} \cup
  {JsonObject(r, e) : r \in {None, Some(<<>>), Some(HiThere)}, e \in {None, Some(DbDown)}}

\* JS truthiness of an optional string: defined and not "".
Truthy(opt) == opt # None /\ opt[1] # <<>>

-----------------------------------------------------------------------------
(* fetchWithTimeout: the timer handle *)

\* Handle of the health probe's timer; the k-th chat request has handle k.
ProbeTimerId == 0

\* A finally that forgets clearTimeout(id).
ClearTimeoutForgotten(pending, id) == pending

\* finally { clearTimeout(id) }: no effect on a handle that already fired.
ClearTimeout(pending, id) == pending \ {id}

-----------------------------------------------------------------------------
(* send(): the pieces that decide *)

\* The guard without its `sending` half.
RejectedEmptyOnly(text) == text = <<>>

\* The guard without its `!text` half.
RejectedSendingOnly(text) == sending

\* A guard that also gives up while offline.
RejectedWhenOffline(text) == text = <<>> \/ sending \/ ~online

\* if (!text || sending) return;
Rejected(text) == text = <<>> \/ sending

\* JSON.stringify({ message: text, history: historyForServer }): the
\* historyForServer of the render whose send() is running.
ChatBody(text) == [message |-> text, history |-> historyForServer]

\* Variant 2, lines 485-511.  A rejected r.json() leaves data = null.
\* Result: the appended assistant text, the value given to setOnline, and
\* whether the next render survives.
Reconcile2(status, data) ==
  IF ~Ok(status)
    THEN [text |-> ErrorMark \o
                     (IF Truthy(data.reply) THEN data.reply[1]
                      ELSE IF Truthy(data.error) THEN data.error[1]
                      ELSE <<"HTTP ", ToString(status)>>),
          online |-> FALSE, renders |-> TRUE]
    ELSE IF Truthy(data.reply)
      THEN [text |-> data.reply[1], online |-> TRUE, renders |-> TRUE]
      ELSE [text |-> NoReplyText, online |-> TRUE, renders |-> TRUE]

\* Variant 1, lines 175-193.  r.ok is not read.  A rejected r.json() goes to
\* the catch.  With data = null the updater `(prev) => [..., data.reply ?? ...]`
\* is queued without being evaluated, setOnline(true) and setSending(false)
\* run, and the updater throws a TypeError when the next render applies it.
Reconcile1(status, data) ==
  IF data.parsed = "throw"
    THEN [text |-> ConnectionErrorText, online |-> FALSE, renders |-> TRUE]
    ELSE IF Truthy(data.error)
      THEN [text |-> ErrorMark \o data.error[1], online |-> TRUE, renders |-> TRUE]
      ELSE IF data.parsed = "null"
        THEN [text |-> <<>>, online |-> TRUE, renders |-> FALSE]
        ELSE [text |-> IF data.reply # None THEN data.reply[1] ELSE NoReplyText,
              online |-> TRUE, renders |-> TRUE]

Reconcile(status, data) ==
  IF variant = 1 THEN Reconcile1(status, data) ELSE Reconcile2(status, data)

\* A catch that does not look at e.name.
CatchMessageOneText(errorName) == ConnectionErrorText

\* The catch of send().  Variant 2 tells an abort from other failures by
\* e.name; variant 1 has one text.
CatchMessage(errorName) ==
  IF variant = 2 /\ errorName = "AbortError"
    THEN TimeoutText
    ELSE ConnectionErrorText

RemoveAt(s, i) == SubSeq(s, 1, i - 1) \o SubSeq(s, i + 1, Len(s))

-----------------------------------------------------------------------------
(* What the user can type *)

InEmpty == <<>>
InBlank == <<" ", "\n">>
InHi == <<" ", "H", "i", "\n">>
InNames == <<"n", "a", "m", "e", "s">>
InName == <<"N", "a", "m", "e", " ">>
InWhoMadeYou == <<"W","h","o"," ","m","a","d","e"," ","y","o","u","?">>
InBoth == <<"y","o","u","r"," ","c","r","e","a","t","o","r",","," ","y","o","u","r"," ","n","a","m","e","?">>

Inputs == {InEmpty, InBlank, InHi, InNames, InName, InWhoMadeYou, InBoth}

-----------------------------------------------------------------------------
(* State after mount *)

GreetingOnly == <<Msg("assistant", Greeting)>>

InitWith(msgs) ==
  /\ variant \in {1, 2}
  /\ online = TRUE
  /\ input = <<>>
  /\ sending = FALSE
  /\ messages = msgs
  /\ historyForServer = HistoryOf(msgs)
  /\ calls = <<>>
  /\ probe = (IF variant = 2 THEN "pending" ELSE "absent")
  /\ probeTimer = (variant = 2)
  /\ timers = (IF variant = 2 THEN {ProbeTimerId} ELSE {})
  /\ mounted = TRUE
  /\ accepted = 0
  /\ issued = 0

Init == InitWith(GreetingOnly)

-----------------------------------------------------------------------------
(* Operations *)

\* onChange of the textarea; variant 2 disables the textarea while sending.
Type(v) ==
  /\ mounted
  /\ variant = 1 \/ ~sending
  /\ input' = v
  /\ UNCHANGED <<variant, online, sending, messages, historyForServer, calls,
                 probe, probeTimer, timers, mounted, accepted, issued>>

\* send() up to its first await, and the render that follows the event.
Send ==
  /\ mounted
  /\ LET text == Trim(input)
         withUser == Append(messages, Msg("user", text))
     IN
       IF Rejected(text)
         THEN UNCHANGED vars
         ELSE
           /\ accepted < MaxRounds
           /\ accepted' = accepted + 1
           /\ input' = <<>>
           /\ IF isCreatorQuestion(text)
                THEN /\ messages' = Append(withUser, Msg("assistant", CreatorText))
                     /\ UNCHANGED <<sending, calls, issued, timers>>
                ELSE IF isNameQuestion(text)
                  THEN /\ messages' = Append(withUser, Msg("assistant", IdentityText))
                       /\ UNCHANGED <<sending, calls, issued, timers>>
                  ELSE /\ messages' = withUser
                       /\ sending' = TRUE
                       /\ calls' = Append(calls,
                                     [id |-> issued + 1,
                                      body |-> ChatBody(text),
                                      phase |-> "fetch",
                                      status |-> 0,
                                      timer |-> (variant = 2),
                                      base |-> Len(messages)])
                       /\ issued' = issued + 1
                       /\ timers' = (IF variant = 2
                                       THEN timers \cup {issued + 1}
                                       ELSE timers)
           /\ historyForServer' = HistoryOf(messages')
           /\ UNCHANGED <<variant, online, probe, probeTimer, mounted>>

\* The response head arrives: fetch resolves, fetchWithTimeout's finally
\* clears the timer, and send() goes on to await r.json().
FetchResolve(i, status) ==
  /\ mounted
  /\ i \in 1..Len(calls)
  /\ calls[i].phase = "fetch"
  /\ calls' = [calls EXCEPT ![i].phase = "json", ![i].status = status, ![i].timer = FALSE]
  /\ timers' = (IF variant = 2 THEN ClearTimeout(timers, calls[i].id) ELSE timers)
  /\ UNCHANGED <<variant, online, input, sending, messages, historyForServer,
                 probe, probeTimer, mounted, accepted, issued>>

\* A catch that appends to the 10-entry window instead of the conversation:
\* (prev) => [...prev.slice(-10), { role: "assistant", text: msg }].
CatchOntoWindow(i, errorName) ==
  /\ online' = FALSE
  /\ messages' = Append(Slice(messages), Msg("assistant", CatchMessage(errorName)))
  /\ historyForServer' = HistoryOf(messages')
  /\ sending' = FALSE
  /\ calls' = RemoveAt(calls, i)
  /\ UNCHANGED <<variant, input, probe, probeTimer, mounted, accepted, issued>>

\* catch and finally of send() for an error named errorName.
Catch(i, errorName) ==
  /\ online' = FALSE
  /\ messages' = Append(messages, Msg("assistant", CatchMessage(errorName)))
  /\ historyForServer' = HistoryOf(messages')
  /\ sending' = FALSE
  /\ calls' = RemoveAt(calls, i)
  /\ UNCHANGED <<variant, input, probe, probeTimer, mounted, accepted, issued>>

\* A fetch failure that is answered by fetching again instead of the catch.
FetchRejectRetrying(i) ==
  /\ mounted
  /\ i \in 1..Len(calls)
  /\ calls[i].phase = "fetch"
  /\ issued < MaxRounds + 1
  /\ issued' = issued + 1
  /\ UNCHANGED <<variant, online, input, sending, messages, historyForServer,
                 calls, probe, probeTimer, timers, mounted, accepted>>

\* fetch rejects for a reason other than the abort (TypeError).
FetchReject(i) ==
  /\ mounted
  /\ i \in 1..Len(calls)
  /\ calls[i].phase = "fetch"
  /\ timers' = (IF variant = 2 THEN ClearTimeout(timers, calls[i].id) ELSE timers)
  /\ Catch(i, "TypeError")

\* The 45000 ms timer fires before fetch settled: controller.abort(), fetch
\* rejects with an AbortError.
Timeout(i) ==
  /\ mounted
  /\ i \in 1..Len(calls)
  /\ calls[i].phase = "fetch"
  /\ calls[i].timer
  /\ timers' = ClearTimeout(timers \ {calls[i].id}, calls[i].id)
  /\ Catch(i, "AbortError")

\* r.json() settles; the rest of send() runs, then the render.
JsonSettle(i, data) ==
  /\ mounted
  /\ i \in 1..Len(calls)
  /\ calls[i].phase = "json"
  /\ LET out == Reconcile(calls[i].status, data) IN
       IF out.renders
         THEN /\ messages' = Append(messages, Msg("assistant", out.text))
              /\ historyForServer' = HistoryOf(messages')
              /\ online' = out.online
              /\ sending' = FALSE
              /\ UNCHANGED mounted
         ELSE /\ mounted' = FALSE
              /\ UNCHANGED <<messages, historyForServer, online, sending>>
  /\ calls' = RemoveAt(calls, i)
  /\ UNCHANGED <<variant, input, probe, probeTimer, timers, accepted, issued>>

\* Health probe of variant 2 (lines 430-439).
HealthSettle(value) ==
  /\ mounted
  /\ probe = "pending"
  /\ probe' = "settled"
  /\ probeTimer' = FALSE
  /\ online' = value
  /\ UNCHANGED <<variant, input, sending, messages, historyForServer, calls,
                 mounted, accepted, issued>>

\* A probe that takes any response for health: setOnline(true).
HealthResolveAnyStatus(status) ==
  /\ HealthSettle(TRUE)
  /\ timers' = ClearTimeout(timers, ProbeTimerId)

\* The probe's fetch resolves: finally clears the timer, setOnline(r.ok).
HealthResolve(status) ==
  /\ HealthSettle(Ok(status))
  /\ timers' = ClearTimeout(timers, ProbeTimerId)

\* The probe's fetch rejects: finally clears the timer, setOnline(false).
HealthReject ==
  /\ HealthSettle(FALSE)
  /\ timers' = ClearTimeout(timers, ProbeTimerId)

\* The 15000 ms timer fires first: abort, finally, setOnline(false).
HealthTimeout ==
  /\ probeTimer
  /\ HealthSettle(FALSE)
  /\ timers' = ClearTimeout(timers \ {ProbeTimerId}, ProbeTimerId)

Next ==
  \/ \E v \in Inputs : Type(v)
  \/ Send
  \/ \E i \in 1..Len(calls), status \in Statuses : FetchResolve(i, status)
  \/ \E i \in 1..Len(calls) : FetchReject(i)
  \/ \E i \in 1..Len(calls) : Timeout(i)
  \/ \E i \in 1..Len(calls), data \in Bodies : JsonSettle(i, data)
  \/ \E status \in Statuses : HealthResolve(status)
  \/ HealthReject
  \/ HealthTimeout

Spec == Init /\ [][Next]_vars

TypeOK ==
  /\ variant \in {1, 2}
  /\ online \in BOOLEAN
  /\ sending \in BOOLEAN
  /\ input \in Inputs
  /\ Len(messages) <= 1 + 2 * (MaxRounds + MaxSeedRounds)

\* Conversations that k local quick replies leave behind.
RECURSIVE Seeded(_)
Seeded(k) ==
  IF k = 0
    THEN GreetingOnly
    ELSE Seeded(k - 1) \o
           (IF k % 2 = 1
              THEN <<Msg("user", Trim(InWhoMadeYou)), Msg("assistant", CreatorText)>>
              ELSE <<Msg("user", Trim(InName)), Msg("assistant", IdentityText)>>)

\* The same component picked up after 0..MaxSeedRounds quick replies.
InitLong == \E k \in 0..MaxSeedRounds : InitWith(Seeded(k))

SpecLong == InitLong /\ [][Next]_vars

\* Timers fire when due; the remote endpoint and the user owe nothing.
FairSpec ==
  /\ Spec
  /\ WF_vars(\E i \in 1..Len(calls) : Timeout(i))
  /\ WF_vars(HealthTimeout)

-----------------------------------------------------------------------------
(* Vocabulary of the properties *)

Last(s) == s[Len(s)]

Min(a, b) == IF a <= b THEN a ELSE b

IsPrefix(s, t) == Len(s) <= Len(t) /\ SubSeq(t, 1, Len(s)) = s

\* Case-insensitive substring intents of the specification (section 4.1).
CreatorIntent(text) ==
  LET m == ToLowerCase(text) IN
    \E pat \in {WhoCreatedYou, WhoMadeYou, YourCreator, WhoBuiltYou} : Includes(m, pat)

IdentityIntent(text) ==
  LET m == ToLowerCase(text) IN
    \/ \E pat \in {YourName, UrName, WhoAreYou} : Includes(m, pat)
    \/ m = Name

\* A send step that passes the guard with a non-canned text.
NetworkSendStep ==
  /\ Send
  /\ ~sending
  /\ Trim(input) # <<>>
  /\ ~CreatorIntent(Trim(input))
  /\ ~IdentityIntent(Trim(input))

\* A step in which the single in-flight send is resolved.
ResolutionStep == Len(calls) = 1 /\ calls' = <<>>

-----------------------------------------------------------------------------
(* C1 *)

\* C1: at most one chat request is in flight in every reachable state, and a
\* send invoked while sending is a no-op: the conversation does not change
\* and no request is issued.
C1_SingleFlight ==
  /\ [](Len(calls) <= 1)
  /\ [][(Send /\ sending) => UNCHANGED <<messages, calls, issued>>]_vars

\* A send is outstanding and the input buffer holds a sendable text.
C1_Witness ==
  /\ sending
  /\ Len(calls) = 1
  /\ Trim(input) # <<>>
  /\ accepted < MaxRounds

-----------------------------------------------------------------------------
(* C2 *)

\* C2: every send that goes Idle -> Sending eventually returns to Idle,
\* whatever the remote endpoint does, including never settling.
C2_ReturnsToIdle == sending ~> ~sending

\* Variant 2 while the timer is pending: the timer alone brings the send back.
Lemma_C2_TimerBounded ==
  (sending /\ variant = 2 /\ Len(calls) = 1 /\ calls[1].timer) ~> ~(sending /\ calls # <<>> /\ calls[1].timer)

-----------------------------------------------------------------------------
(* C3 *)

\* C3: an accepted non-canned send appends exactly one user Message, and its
\* resolution, in every branch, appends exactly one assistant Message: a
\* conversation of length N before the send has length N + 2 afterwards.
C3_OneUserOneAssistant ==
  /\ [][NetworkSendStep => messages' = Append(messages, Msg("user", Trim(input)))]_vars
  /\ [][ResolutionStep =>
          /\ Len(messages') = calls[1].base + 2
          /\ IsPrefix(messages, messages')
          /\ Last(messages').role = "assistant"
          /\ messages'[Len(messages') - 1] = Msg("user", calls[1].body.message)]_vars

\* Variant 2 does append exactly one user and one assistant Message per send.
Lemma_C3_Variant2 ==
  [][(ResolutionStep /\ variant = 2) =>
       /\ Len(messages') = calls[1].base + 2
       /\ IsPrefix(messages, messages')
       /\ Last(messages').role = "assistant"
       /\ messages'[Len(messages') - 1] = Msg("user", calls[1].body.message)]_vars

-----------------------------------------------------------------------------
(* C4 *)

\* C4: a send accepted in Idle whose trimmed input matches a Creator-intent
\* substring appends the user Message and then exactly one assistant Message
\* with the creator text, issues no request, and never becomes Sending.
C4_CreatorLocal ==
  [][(Send /\ ~sending /\ CreatorIntent(Trim(input))) =>
       /\ messages' = messages \o <<Msg("user", Trim(input)),
                                    Msg("assistant", CreatorText)>>
       /\ UNCHANGED <<calls, issued>>
       /\ sending' = FALSE]_vars

C4_Witness ==
  /\ Len(messages) >= 3
  /\ Last(messages) = Msg("assistant", CreatorText)
  /\ CreatorIntent(messages[Len(messages) - 1].text)
  /\ accepted = 1
  /\ issued = 0
  /\ ~sending

-----------------------------------------------------------------------------
(* C5 *)

\* C5: a send accepted in Idle whose trimmed input matches an Identity-intent
\* substring and no Creator-intent substring appends the user Message and
\* then exactly one assistant Message with the identity text, and issues no
\* request.
C5_IdentityLocal ==
  [][(Send /\ ~sending /\ IdentityIntent(Trim(input)) /\ ~CreatorIntent(Trim(input))) =>
       /\ messages' = messages \o <<Msg("user", Trim(input)),
                                    Msg("assistant", IdentityText)>>
       /\ UNCHANGED <<calls, issued>>]_vars

C5_Witness ==
  /\ Len(messages) >= 3
  /\ Last(messages) = Msg("assistant", IdentityText)
  /\ IdentityIntent(messages[Len(messages) - 1].text)
  /\ ~CreatorIntent(messages[Len(messages) - 1].text)
  /\ accepted = 1
  /\ issued = 0

-----------------------------------------------------------------------------
(* C6 *)

\* C6: the history in the body of an outgoing chat request ends with the
\* user Message that the same send has just appended (role user, text equal
\* to the trimmed input).
C6_HistoryHasCurrentTurn ==
  \A i \in 1..Len(calls) :
    LET h == calls[i].body.history IN
      /\ h # <<>>
      /\ Last(h) = Msg("user", calls[i].body.message)

\* What the code sends: the window of the conversation as rendered before the
\* send, which stops short of the user's turn.
Lemma_C6_HistoryOfPreviousRender ==
  \A i \in 1..Len(calls) :
    calls[i].body.history = HistoryOf(SubSeq(messages, 1, calls[i].base))

-----------------------------------------------------------------------------
(* C7 *)

\* h holds the last Min(Len(msgs), 10) entries of msgs, in order, with each
\* role either "assistant" or "user".
IsRecentWindow(h, msgs) ==
  /\ Len(h) = Min(Len(msgs), 10)
  /\ \A i \in 1..Len(h) :
       LET m == msgs[Len(msgs) - Len(h) + i] IN
         /\ h[i].text = m.text
         /\ h[i].role \in {"assistant", "user"}
         /\ h[i].role = "assistant" <=> m.role = "assistant"

-----------------------------------------------------------------------------
(* C8 *)

\* C8: when the timer elapses before the chat request settles, the request
\* is cancelled and the send resolves with the timeout text, offline and
\* Idle; a transport failure that is not a timeout resolves with the generic
\* connection-error text, also offline; the two texts differ.
C8_TimeoutDistinct ==
  /\ [][(\E i \in 1..Len(calls) : Timeout(i)) =>
          /\ messages' = Append(messages, Msg("assistant", TimeoutText))
          /\ online' = FALSE
          /\ sending' = FALSE
          /\ calls' = <<>>]_vars
  /\ [][(\E i \in 1..Len(calls) : FetchReject(i)) =>
          /\ messages' = Append(messages, Msg("assistant", ConnectionErrorText))
          /\ online' = FALSE
          /\ sending' = FALSE]_vars
  /\ [](TimeoutText # ConnectionErrorText)

\* A send has just been resolved by its timeout.
C8_Witness ==
  /\ Last(messages) = Msg("assistant", TimeoutText)
  /\ ~online
  /\ ~sending
  /\ calls = <<>>
  /\ issued >= 1

-----------------------------------------------------------------------------
(* C9 *)

\* The text the specification displays for a non-success response: the
\* body's reply or error field when it carries one, else a status-derived text.
ErrorDisplayText(status, data) ==
  IF Truthy(data.reply) THEN data.reply[1]
  ELSE IF Truthy(data.error) THEN data.error[1]
  ELSE <<"HTTP ", ToString(status)>>

\* C9: a response with a non-success status appends one error-marked
\* assistant Message whose text is the body's reply or error field when the
\* body carries one and a status-derived text otherwise, and sets
\* ConnectivityStatus to offline.
C9_NonSuccessOffline ==
  [][\A data \in Bodies :
       (Len(calls) = 1 /\ JsonSettle(1, data) /\ ~Ok(calls[1].status)) =>
         /\ messages' = Append(messages,
                          Msg("assistant", ErrorMark \o ErrorDisplayText(calls[1].status, data)))
         /\ online' = FALSE]_vars

\* Variant 2 does so.
Lemma_C9_Variant2 ==
  [][\A data \in Bodies :
       (variant = 2 /\ Len(calls) = 1 /\ JsonSettle(1, data) /\ ~Ok(calls[1].status)) =>
         /\ messages' = Append(messages,
                          Msg("assistant", ErrorMark \o ErrorDisplayText(calls[1].status, data)))
         /\ online' = FALSE]_vars

-----------------------------------------------------------------------------
(* C10 *)

\* C10: a response with HTTP success and no usable reply field, a body that
\* is not JSON included, appends the fixed "no reply" assistant Message and
\* sets ConnectivityStatus to online.
C10_NoReplyOnline ==
  [][\A data \in Bodies :
       (Len(calls) = 1 /\ JsonSettle(1, data) /\ Ok(calls[1].status) /\ ~Truthy(data.reply)) =>
         /\ messages' = Append(messages, Msg("assistant", NoReplyText))
         /\ online' = TRUE]_vars

\* Variant 2 does so.
Lemma_C10_Variant2 ==
  [][\A data \in Bodies :
       (variant = 2 /\ Len(calls) = 1 /\ JsonSettle(1, data) /\ Ok(calls[1].status)
          /\ ~Truthy(data.reply)) =>
         /\ messages' = Append(messages, Msg("assistant", NoReplyText))
         /\ online' = TRUE]_vars

-----------------------------------------------------------------------------
(* C11 *)

\* C11: a response with HTTP success and a JSON body carrying a non-empty
\* reply field appends an assistant Message whose text is exactly that reply,
\* and ConnectivityStatus is online afterwards.
C11_ReplyVerbatim ==
  [][\A data \in Bodies :
       (Len(calls) = 1 /\ JsonSettle(1, data) /\ Ok(calls[1].status) /\ Truthy(data.reply)) =>
         /\ messages' = Append(messages, Msg("assistant", data.reply[1]))
         /\ online' = TRUE]_vars

\* Variant 2 does so.
Lemma_C11_Variant2 ==
  [][\A data \in Bodies :
       (variant = 2 /\ Len(calls) = 1 /\ JsonSettle(1, data) /\ Ok(calls[1].status)
          /\ Truthy(data.reply)) =>
         /\ messages' = Append(messages, Msg("assistant", data.reply[1]))
         /\ online' = TRUE]_vars

\* Variant 1 does so when the body carries no error field.
Lemma_C11_Variant1NoError ==
  [][\A data \in Bodies :
       (variant = 1 /\ Len(calls) = 1 /\ JsonSettle(1, data) /\ Ok(calls[1].status)
          /\ Truthy(data.reply) /\ ~Truthy(data.error)) =>
         /\ messages' = Append(messages, Msg("assistant", data.reply[1]))
         /\ online' = TRUE]_vars

-----------------------------------------------------------------------------
(* C12 *)

\* C12: the conversation is append-only: it begins with the seeded assistant
\* greeting, and in every step the previous conversation is a prefix of the
\* new one, also once it is longer than the 10-entry history window.
C12_AppendOnly ==
  /\ [](IsPrefix(GreetingOnly, messages))
  /\ [][IsPrefix(messages, messages')]_vars

\* A send has been resolved on top of a conversation longer than the window.
C12_Witness ==
  /\ Len(messages) > HistoryWindow + 2
  /\ issued >= 1
  /\ ~sending
  /\ Last(messages).role = "assistant"

\* Under Spec the conversation starts as the greeting alone.
Lemma_C12_StartsAsGreeting == accepted = 0 => messages = GreetingOnly

-----------------------------------------------------------------------------
(* C13 *)

\* C13: a send whose input is empty after trimming has no side effects: the
\* conversation, the input buffer, SendState and ConnectivityStatus are
\* unchanged and no request is issued.
C13_EmptyIsNoOp ==
  [][(Send /\ Trim(input) = <<>>) =>
       UNCHANGED <<messages, input, sending, online, calls, issued>>]_vars

\* Idle, with an input buffer that holds only whitespace.
C13_Witness ==
  /\ mounted
  /\ ~sending
  /\ input = InBlank
  /\ accepted < MaxRounds

-----------------------------------------------------------------------------
(* C14 *)

\* C14: the timer started for a request is released on every completion
\* path: whenever SendState is Idle and no health probe is outstanding no
\* request timer is pending, and every pending timer belongs to a request
\* whose fetch is still outstanding, so none leaks into a later send.
C14_TimersReleased ==
  /\ (~sending /\ probe # "pending") => timers = {}
  /\ \A t \in timers :
       \/ t = ProbeTimerId /\ probe = "pending"
       \/ \E i \in 1..Len(calls) : calls[i].id = t /\ calls[i].phase = "fetch"

\* Variant 2 back in Idle after the probe and two requests have completed.
C14_Witness ==
  /\ variant = 2
  /\ ~sending
  /\ probe = "settled"
  /\ issued = 2
  /\ timers = {}

\* The handle table agrees with the flags the invocations hold.
Lemma_C14_FlagsAgree ==
  /\ probeTimer <=> ProbeTimerId \in timers
  /\ \A i \in 1..Len(calls) : calls[i].timer <=> calls[i].id \in timers

-----------------------------------------------------------------------------
(* C15 *)

\* The user Messages of the conversation that no local quick reply answers.
NonCannedTurns ==
  {i \in 1..Len(messages) :
     /\ messages[i].role = "user"
     /\ ~CreatorIntent(messages[i].text)
     /\ ~IdentityIntent(messages[i].text)}

\* C15: each accepted non-canned send issues exactly one chat request and
\* nothing else issues one: the number of requests issued equals the number
\* of accepted non-canned sends, and it grows only in a step of send.
C15_NoRetry ==
  /\ [](issued = Cardinality(NonCannedTurns))
  /\ [][issued' # issued => (NetworkSendStep /\ issued' = issued + 1)]_vars

\* A second request went out only after the first send had failed and the
\* user had sent again.
C15_Witness ==
  /\ issued = 2
  /\ Len(messages) = 4
  /\ messages[3].role = "assistant"
  /\ messages[3].text \in {TimeoutText, ConnectionErrorText}
  /\ sending

-----------------------------------------------------------------------------
(* C16 *)

\* C16: ConnectivityStatus does not gate sending: in Idle a send with a
\* non-empty non-canned input issues a chat request whether online or
\* offline, and a later successful reply sets ConnectivityStatus to online.
C16_StatusDoesNotGate ==
  /\ []((/\ mounted
          /\ ~sending
          /\ accepted < MaxRounds
          /\ Trim(input) # <<>>
          /\ ~CreatorIntent(Trim(input))
          /\ ~IdentityIntent(Trim(input))) =>
           ENABLED (/\ Send
                    /\ issued' = issued + 1
                    /\ Len(calls') = Len(calls) + 1
                    /\ sending' = TRUE))
  /\ [][\A data \in Bodies :
          (Len(calls) = 1 /\ JsonSettle(1, data) /\ Ok(calls[1].status)
             /\ Truthy(data.reply)) => online' = TRUE]_vars

\* Variant 1 has no probe: the first send failed, which set offline, and
\* the second request is in flight all the same.
C16_Witness ==
  /\ variant = 1
  /\ ~online
  /\ issued = 2
  /\ Len(calls) = 1
  /\ sending

\* Offline, then a successful reply: online again.
C16_WitnessBackOnline ==
  /\ online
  /\ issued = 2
  /\ ~sending
  /\ Len(messages) = 5
  /\ messages[3].text \in {TimeoutText, ConnectionErrorText}
  /\ messages[5] = Msg("assistant", HiThere)

-----------------------------------------------------------------------------
(* C17 *)

\* C17: the completion of the startup health probe, at any point of any
\* interleaving with sends, sets ConnectivityStatus to online exactly when
\* the probe's response is successful and to offline on failure or timeout,
\* and leaves the conversation, the input buffer and SendState unchanged.
C17_ProbeIndependent ==
  /\ [][\A status \in Statuses : HealthResolve(status) => (online' <=> Ok(status))]_vars
  /\ [][(HealthReject \/ HealthTimeout) => online' = FALSE]_vars
  /\ [][probe' # probe =>
          /\ probe = "pending"
          /\ probe' = "settled"
          /\ UNCHANGED <<messages, input, sending, calls, issued>>]_vars

\* The probe completed with a non-success response while the first send was
\* awaiting its fetch.
C17_Witness ==
  /\ variant = 2
  /\ probe = "settled"
  /\ ~online
  /\ sending
  /\ issued = 1
  /\ Len(calls) = 1
  /\ calls[1].phase = "fetch"

-----------------------------------------------------------------------------
(* C18 *)

\* C18: when the trimmed input matches both a Creator-intent and an
\* Identity-intent substring, send answers with the creator text only and
\* appends no identity reply.
C18_CreatorFirst ==
  [][(Send /\ ~sending /\ CreatorIntent(Trim(input)) /\ IdentityIntent(Trim(input))) =>
       /\ messages' = messages \o <<Msg("user", Trim(input)),
                                    Msg("assistant", CreatorText)>>
       /\ \A i \in (Len(messages) + 1)..Len(messages') :
            messages'[i].text # IdentityText]_vars

\* A text with both intents has just been answered.
C18_Witness ==
  /\ Len(messages) >= 3
  /\ CreatorIntent(messages[Len(messages) - 1].text)
  /\ IdentityIntent(messages[Len(messages) - 1].text)
  /\ messages[Len(messages) - 1].role = "user"
  /\ Last(messages) = Msg("assistant", CreatorText)

-----------------------------------------------------------------------------
(* C19 *)

\* C19: the conversation alternates roles, starting with the assistant
\* greeting; in Idle it ends with an assistant Message, and while Sending it
\* ends with the user Message of the send in flight.
C19_Alternation ==
  /\ messages[1] = Msg("assistant", Greeting)
  /\ \A i \in 1..Len(messages) :
       messages[i].role = (IF i % 2 = 1 THEN "assistant" ELSE "user")
  /\ ~sending => Last(messages).role = "assistant"
  /\ sending =>
       /\ Last(messages).role = "user"
       /\ \A i \in 1..Len(calls) : Last(messages).text = calls[i].body.message

\* The second round's request is in flight.
C19_Witness ==
  /\ sending
  /\ Len(calls) = 1
  /\ Len(messages) = 4
  /\ Last(messages) = Msg("user", calls[1].body.message)

====
